---- MODULE Spec2Model ----
(***************************************************************************)
(* Model of the assistance dispatch core (src/assistance).                 *)
(*                                                                         *)
(* The database holds the committed rows of AssistanceRequest, Provider    *)
(* and ServiceAssignment.  Every service call of AssistanceService runs in *)
(* one `transaction.atomic()` block: its writes are buffered in the        *)
(* transaction and become visible to the others at commit only; its row    *)
(* locks (select_for_update) are held until commit or rollback.  One       *)
(* action is one database statement together with the local computation    *)
(* that follows it up to the next statement.                               *)
(*                                                                         *)
(* The Provider table is filled from outside the service (no call of it    *)
(* creates a provider): it starts with 0..NumProviders rows, all available *)
(* (the field's default).                                                  *)
(*                                                                         *)
(* Coordinates: every point lies on the meridian lon = 0 and has a whole   *)
(* number of degrees of latitude.  There the haversine formula reduces to  *)
(* r * |lat2 - lat1| * pi/180, so distances are kept in units of pi/180 km.*)
(***************************************************************************)
EXTENDS Integers, Sequences, FiniteSets, TLC

\* ------------------------------------------------------------------ bounds
MaxRequests == 2
NumProviders == 2
NumWorkers == 2
MaxLat == 1

Providers == 1..NumProviders
Workers == 1..NumWorkers
Lats == 0..MaxLat

\* --------------------------------------------------------------- constants
STATUS_PENDING == "PENDING"
STATUS_DISPATCHED == "DISPATCHED"
STATUS_COMPLETED == "COMPLETED"
STATUS_CANCELLED == "CANCELLED"
STATUS_CHOICES == {STATUS_PENDING, STATUS_DISPATCHED, STATUS_COMPLETED, STATUS_CANCELLED}

EarthRadius == 6371

\* The exceptions the service raises, by their message.
ErrNotPending == "Only pending requests can be dispatched"
ErrNoProviders == "No available providers to assign"
ErrProviderBusy == "Provider is busy!"
ErrNotDispatched == "Only dispatched requests can be completed"
ErrNoAssignment == "Request has no assignment"
ErrCompleted == "Completed request cannot be cancelled"
ErrDoesNotExist == "AssistanceRequest.DoesNotExist"
ErrIntegrity == "IntegrityError"
OK == "OK"

VARIABLES
    requests,      \* AssistanceRequest rows: sequence indexed by id, [status, lat]
    providers,     \* Provider rows: id -> [lat, is_available], ids 1..n
    assignments,   \* ServiceAssignment rows, in creation order: [request, provider]
    jobs,          \* notification jobs handed to the task queue, in order
    reqLock,       \* per request row: the transaction holding its row lock, or 0
    provLock,      \* provider id -> the transaction holding its row lock, or 0
    tx             \* per caller: the service call in progress

vars == <<requests, providers, assignments, jobs, reqLock, provLock, tx>>
db == <<requests, providers, assignments, jobs>>

RequestIds == 1..MaxRequests

\* ------------------------------------------------------------ pure helpers
Abs(x) == IF x < 0 THEN -x ELSE x

\* _haversine_distance on the meridian lon1 = lon2: a = sin(d_phi/2)^2,
\* c = |d_phi|, result r * |d_phi| (d_phi in degrees here).
haversine_distance(lat1, lon1, lat2, lon2) == EarthRadius * Abs(lat2 - lat1)

\* The key of min(...): the distance from the request to provider p.
distance_key(req_lat, p_lat) == haversine_distance(req_lat, 0, p_lat, 0)

\* Python's min(providers, key=...) over the rows in the order the store
\* returned them: the first row whose key is minimal.  `order` is a sequence
\* of provider ids, plat their latitudes.
RECURSIVE min_from(_, _, _, _, _)
min_from(order, plat, req_lat, i, best) ==
    IF i > Len(order) THEN best
    ELSE IF distance_key(req_lat, plat[order[i]]) < distance_key(req_lat, plat[best])
         THEN min_from(order, plat, req_lat, i + 1, order[i])
         ELSE min_from(order, plat, req_lat, i + 1, best)

\* Faulty variant: the first row returned, whatever its distance.
nearest_first(order, plat, req_lat) == order[1]
nearest(order, plat, req_lat) == min_from(order, plat, req_lat, 2, order[1])

\* Every order in which the store may return the rows of S (no ORDER BY).
Orderings(S) ==
    {s \in [1..Cardinality(S) -> S] : \A i, j \in 1..Cardinality(S) : i # j => s[i] # s[j]}

\* ----------------------------------------------------------------- queries
Exists(rid) == rid \in DOMAIN requests

\* Provider.objects.filter(is_available=True)
\* (faulty variant: the filter is missing)
AvailableProviders_Unfiltered == DOMAIN providers
AvailableProviders == {p \in DOMAIN providers : providers[p].is_available}

\* The rows of ServiceAssignment for a request (the reverse one-to-one accessor).
AssignmentsOf(rid) == {i \in DOMAIN assignments : assignments[i].request = rid}

\* getattr(req, "assignment", None): 0 stands for None.
\* (faulty variant: the accessor never finds the row)
AssignmentOf_None(rid) == 0
AssignmentOf(rid) ==
    IF AssignmentsOf(rid) = {} THEN 0
    ELSE CHOOSE i \in AssignmentsOf(rid) : \A j \in AssignmentsOf(rid) : i <= j

\* ------------------------------------------------------------ transactions
Idle == [pc |-> "idle", op |-> "", request_id |-> 0, req_status |-> "",
         provider |-> 0, w_available |-> "", w_assignment |-> FALSE,
         w_status |-> "", on_commit |-> FALSE, result |-> ""]

Init ==
    /\ requests = <<>>
    /\ \E n \in 0..NumProviders : providers \in [1..n -> [lat : Lats, is_available : {TRUE}]]
    /\ assignments = <<>>
    /\ jobs = <<>>
    /\ reqLock = <<>>
    /\ provLock = [p \in Providers |-> 0]
    /\ tx = [t \in Workers |-> Idle]

\* AssistanceService.create_request: a new row, status PENDING by default.
create_request(lat) ==
    /\ Len(requests) < MaxRequests
    /\ requests' = Append(requests, [status |-> STATUS_PENDING, lat |-> lat])
    /\ reqLock' = Append(reqLock, 0)
    /\ UNCHANGED <<providers, assignments, jobs, provLock, tx>>

\* A caller enters one of the three service calls: the transaction begins.
Begin(t, op, rid) ==
    /\ tx[t].pc = "idle"
    /\ tx' = [tx EXCEPT ![t] = [Idle EXCEPT !.pc = "lock_req", !.op = op, !.request_id = rid]]
    /\ UNCHANGED <<db, reqLock, provLock>>

\* An exception leaves the atomic block: rollback, the locks are released,
\* the buffered writes and the on_commit hook are dropped.
\* (faulty variants: the locks outlive the transaction)
ReleaseReq_Leak(t) == reqLock
ReleaseProv_Leak(t) == provLock
ReleaseReq(t) == [r \in DOMAIN reqLock |-> IF reqLock[r] = t THEN 0 ELSE reqLock[r]]
ReleaseProv(t) == [p \in Providers |-> IF provLock[p] = t THEN 0 ELSE provLock[p]]

Raised(t, err) ==
    [tx[t] EXCEPT !.pc = "done", !.result = err, !.provider = 0, !.w_available = "",
                  !.w_assignment = FALSE, !.w_status = "", !.on_commit = FALSE]

\* ----------------------------------------------------------------- guards
\* services.py:61, 115, 145, 148: the status tests of the three calls.
\* The _Always, _Never and _Terminal variants are faulty tests, kept to show
\* that the properties below depend on the right ones.
CanDispatch_Always(status) == TRUE
CanDispatch(status) == status = STATUS_PENDING

CanComplete_Always(status) == TRUE
CanComplete(status) == status = STATUS_DISPATCHED

CancelRejected_Never(status) == FALSE
CancelRejected_Terminal(status) == status \in {STATUS_COMPLETED, STATUS_CANCELLED}
CancelRejected(status) == status = STATUS_COMPLETED

CancelIsNoop(status) == status = STATUS_CANCELLED

\* select_for_update: the statement waits while another transaction holds
\* the lock of a row it selects.
RequestRowFree(t, rid) == reqLock[rid] \in {0, t}
\* (faulty variant: a plain read, which waits for no lock)
ProviderRowsFree_NoWait(t, ps) == TRUE
ProviderRowsFree(t, ps) == \A p \in ps : provLock[p] \in {0, t}

\* The provider joined to the request by select_related("assignment__provider").
LinkedProvider(rid) ==
    IF AssignmentOf(rid) = 0 THEN 0 ELSE assignments[AssignmentOf(rid)].provider

LinkedRows(rid) == IF LinkedProvider(rid) = 0 THEN {} ELSE {LinkedProvider(rid)}

\* ---------------------------------------------- assign_provider_atomic
\* Lines 55-62: lock the request row, read it, test its status.
DispatchLockRequest(t) ==
    /\ tx[t].pc = "lock_req"
    /\ tx[t].op = "dispatch"
    /\ LET rid == tx[t].request_id IN
       IF ~Exists(rid)
       THEN /\ tx' = [tx EXCEPT ![t] = Raised(t, ErrDoesNotExist)]
            /\ UNCHANGED <<db, reqLock, provLock>>
       ELSE /\ RequestRowFree(t, rid)
            /\ IF ~CanDispatch(requests[rid].status)
               THEN /\ tx' = [tx EXCEPT ![t] =
                                [Raised(t, ErrNotPending) EXCEPT !.req_status = requests[rid].status]]
                    /\ UNCHANGED <<db, reqLock, provLock>>
               ELSE /\ reqLock' = [reqLock EXCEPT ![rid] = t]
                    /\ tx' = [tx EXCEPT ![t].pc = "lock_prov",
                                        ![t].req_status = requests[rid].status]
                    /\ UNCHANGED <<db, provLock>>

\* A notification job as handed to the task queue by .delay(rid).
\* retries is the task's self.request.retries, state its place in the queue,
\* countdowns the delays (seconds) of the retries scheduled so far.
NewJob(rid) == [request_id |-> rid, retries |-> 0, state |-> "queued", countdowns |-> <<>>]

\* Lines 95-97: transaction.on_commit only registers the hook; the queue is
\* what it was until the commit.
\* (faulty variant: .delay(rid) called inside the transaction)
register_on_commit_eager(rid) == Append(jobs, NewJob(rid))
register_on_commit(rid) == jobs

\* Lines 64-97: lock the available providers, pick the nearest, buffer the
\* three writes and register the on_commit hook.
DispatchLockProviders(t) ==
    /\ tx[t].pc = "lock_prov"
    /\ LET rid == tx[t].request_id
           rows == AvailableProviders
           plat == [p \in DOMAIN providers |-> providers[p].lat]
       IN
       /\ ProviderRowsFree(t, rows)
       /\ IF rows = {}
          THEN /\ tx' = [tx EXCEPT ![t] = Raised(t, ErrNoProviders)]
               /\ reqLock' = ReleaseReq(t)
               /\ UNCHANGED <<db, provLock>>
          ELSE \E order \in Orderings(rows) :
               LET provider == nearest(order, plat, requests[rid].lat) IN
               IF ~providers[provider].is_available
               THEN /\ tx' = [tx EXCEPT ![t] = Raised(t, ErrProviderBusy)]
                    /\ reqLock' = ReleaseReq(t)
                    /\ UNCHANGED <<db, provLock>>
               ELSE IF AssignmentsOf(rid) # {}
               THEN \* the one-to-one field's unique constraint rejects the insert
                    /\ tx' = [tx EXCEPT ![t] = Raised(t, ErrIntegrity)]
                    /\ reqLock' = ReleaseReq(t)
                    /\ UNCHANGED <<db, provLock>>
               ELSE /\ provLock' = [p \in Providers |-> IF p \in rows THEN t ELSE provLock[p]]
                    /\ tx' = [tx EXCEPT ![t].pc = "commit",
                                        ![t].provider = provider,
                                        ![t].w_available = "false",
                                        ![t].w_assignment = TRUE,
                                        ![t].w_status = STATUS_DISPATCHED,
                                        ![t].on_commit = TRUE]
                    /\ jobs' = register_on_commit(rid)
                    /\ UNCHANGED <<requests, providers, assignments, reqLock>>

\* ------------------------------------------------------ complete_request
\* Lines 108-127.
CompleteLockRequest(t) ==
    /\ tx[t].pc = "lock_req"
    /\ tx[t].op = "complete"
    /\ LET rid == tx[t].request_id IN
       IF ~Exists(rid)
       THEN /\ tx' = [tx EXCEPT ![t] = Raised(t, ErrDoesNotExist)]
            /\ UNCHANGED <<db, reqLock, provLock>>
       ELSE /\ RequestRowFree(t, rid)
            /\ ProviderRowsFree(t, LinkedRows(rid))
            /\ IF ~CanComplete(requests[rid].status)
               THEN /\ tx' = [tx EXCEPT ![t] =
                                [Raised(t, ErrNotDispatched) EXCEPT !.req_status = requests[rid].status]]
                    /\ UNCHANGED <<db, reqLock, provLock>>
               ELSE IF AssignmentOf(rid) = 0
               THEN /\ tx' = [tx EXCEPT ![t] =
                                [Raised(t, ErrNoAssignment) EXCEPT !.req_status = requests[rid].status]]
                    /\ UNCHANGED <<db, reqLock, provLock>>
               ELSE /\ reqLock' = [reqLock EXCEPT ![rid] = t]
                    /\ provLock' = [provLock EXCEPT ![LinkedProvider(rid)] = t]
                    /\ tx' = [tx EXCEPT ![t].pc = "commit",
                                        ![t].req_status = requests[rid].status,
                                        ![t].provider = LinkedProvider(rid),
                                        ![t].w_available = "true",
                                        ![t].w_status = STATUS_COMPLETED]
                    /\ UNCHANGED db

\* -------------------------------------------------------- cancel_request
\* Lines 152-158: the provider a cancel releases, 0 for none.
\* (faulty variant: the release is forgotten)
CancelReleases_None(status, rid) == 0
CancelReleases(status, rid) ==
    IF status = STATUS_DISPATCHED THEN LinkedProvider(rid) ELSE 0

\* Lines 138-162.
CancelLockRequest(t) ==
    /\ tx[t].pc = "lock_req"
    /\ tx[t].op = "cancel"
    /\ LET rid == tx[t].request_id IN
       IF ~Exists(rid)
       THEN /\ tx' = [tx EXCEPT ![t] = Raised(t, ErrDoesNotExist)]
            /\ UNCHANGED <<db, reqLock, provLock>>
       ELSE /\ RequestRowFree(t, rid)
            /\ ProviderRowsFree(t, LinkedRows(rid))
            /\ LET status == requests[rid].status
                   p == CancelReleases(status, rid)
               IN
               IF CancelRejected(status)
               THEN /\ tx' = [tx EXCEPT ![t] =
                                [Raised(t, ErrCompleted) EXCEPT !.req_status = status]]
                    /\ UNCHANGED <<db, reqLock, provLock>>
               ELSE /\ reqLock' = [reqLock EXCEPT ![rid] = t]
                    /\ provLock' = [q \in Providers |->
                                      IF q \in LinkedRows(rid) THEN t ELSE provLock[q]]
                    /\ tx' = [tx EXCEPT ![t].pc = "commit",
                                        ![t].req_status = status,
                                        ![t].provider = IF CancelIsNoop(status) THEN 0 ELSE p,
                                        ![t].w_available =
                                            IF ~CancelIsNoop(status) /\ p # 0 THEN "true" ELSE "",
                                        ![t].w_status =
                                            IF CancelIsNoop(status) THEN "" ELSE STATUS_CANCELLED]
                    /\ UNCHANGED db

\* ------------------------------------------------------------------ commit
\* The atomic block ends normally: the buffered writes reach the database
\* together and the row locks are released.
Commit(t) ==
    /\ tx[t].pc = "commit"
    /\ LET rid == tx[t].request_id
           p == tx[t].provider
       IN
       /\ providers' = IF tx[t].w_available = "" THEN providers
                       ELSE [providers EXCEPT ![p].is_available = (tx[t].w_available = "true")]
       /\ assignments' = IF tx[t].w_assignment
                         THEN Append(assignments, [request |-> rid, provider |-> p])
                         ELSE assignments
       /\ requests' = IF tx[t].w_status = "" THEN requests
                      ELSE [requests EXCEPT ![rid].status = tx[t].w_status]
    /\ reqLock' = ReleaseReq(t)
    /\ provLock' = ReleaseProv(t)
    /\ tx' = [tx EXCEPT ![t].pc = IF tx[t].on_commit THEN "on_commit" ELSE "done",
                        ![t].result = IF tx[t].on_commit THEN "" ELSE OK]
    /\ UNCHANGED jobs

\* Lines 95-97: the hook registered with transaction.on_commit runs after
\* the commit and hands the notification task to the queue.
OnCommit(t) ==
    /\ tx[t].pc = "on_commit"
    /\ jobs' = Append(jobs, NewJob(tx[t].request_id))
    /\ tx' = [tx EXCEPT ![t].pc = "done", ![t].result = OK]
    /\ UNCHANGED <<requests, providers, assignments, reqLock, provLock>>

\* The call has returned (or raised) to its caller.
Return(t) ==
    /\ tx[t].pc = "done"
    /\ tx' = [tx EXCEPT ![t] = Idle]
    /\ UNCHANGED <<db, reqLock, provLock>>

Ops == {"dispatch", "complete", "cancel"}

Next ==
    \/ \E lat \in Lats : create_request(lat)
    \/ \E t \in Workers, op \in Ops, rid \in RequestIds : Begin(t, op, rid)
    \/ \E t \in Workers : DispatchLockRequest(t)
    \/ \E t \in Workers : DispatchLockProviders(t)
    \/ \E t \in Workers : CompleteLockRequest(t)
    \/ \E t \in Workers : CancelLockRequest(t)
    \/ \E t \in Workers : Commit(t)
    \/ \E t \in Workers : OnCommit(t)
    \/ \E t \in Workers : Return(t)

Spec == Init /\ [][Next]_vars

TypeOK ==
    /\ \A r \in DOMAIN requests : requests[r].status \in STATUS_CHOICES
    /\ \A t \in Workers : tx[t].pc \in {"idle", "lock_req", "lock_prov", "commit", "on_commit", "done"}

\* ------------------------------------------------- the racing dispatches
\* NumWorkers callers have each issued dispatch on a PENDING request of
\* their own while exactly one provider is available: every other provider
\* is held by an earlier request that is still DISPATCHED.  Only the
\* dispatch calls run; no caller starts anything else.
RaceInit ==
    \E free \in Providers :
    \E held \in Orderings(Providers \ {free}) :
    \E lats \in [1..(NumWorkers + NumProviders - 1) -> Lats] :
        /\ requests = [r \in 1..(NumWorkers + NumProviders - 1) |->
                         [status |-> IF r <= NumWorkers THEN STATUS_PENDING
                                     ELSE STATUS_DISPATCHED,
                          lat |-> lats[r]]]
        /\ providers \in [Providers -> [lat : Lats, is_available : BOOLEAN]]
        /\ \A p \in Providers : providers[p].is_available = (p = free)
        /\ assignments = [i \in 1..(NumProviders - 1) |->
                            [request |-> NumWorkers + i, provider |-> held[i]]]
        /\ jobs = [i \in 1..(NumProviders - 1) |-> NewJob(NumWorkers + i)]
        /\ reqLock = [r \in 1..(NumWorkers + NumProviders - 1) |-> 0]
        /\ provLock = [p \in Providers |-> 0]
        /\ tx = [t \in Workers |->
                   [Idle EXCEPT !.pc = "lock_req", !.op = "dispatch", !.request_id = t]]

RaceNext ==
    \/ \E t \in Workers : DispatchLockRequest(t)
    \/ \E t \in Workers : DispatchLockProviders(t)
    \/ \E t \in Workers : Commit(t)
    \/ \E t \in Workers : OnCommit(t)

SpecRace == RaceInit /\ [][RaceNext]_vars

\* ------------------------------------------- notify_insurance_company_task
\* tasks.py:14, 45: the retry budget, the cap in minutes, seconds per minute.
max_retries == 5
BackoffCap == 16
SecondsPerMinute == 60

Min(a, b) == IF a < b THEN a ELSE b

\* Line 44.
backoff_minutes(retry_count) == 2 ^ retry_count

\* Line 45.
countdown(retry_count) == Min(backoff_minutes(retry_count), BackoffCap) * SecondsPerMinute

\* Line 36.
\* (faulty variant: one retry too many)
retries_exhausted_late(retry_count) == retry_count > max_retries
retries_exhausted(retry_count) == retry_count >= max_retries

\* The task takes the request id only; it imports no model and writes no row.
\* (faulty variant: a terminal failure puts the request back to PENDING)
requests_after_task_reverted(rid, failed) ==
    IF failed THEN [requests EXCEPT ![rid].status = STATUS_PENDING] ELSE requests
requests_after_task(rid, failed) == requests

\* The states in which a worker picks the task up.
\* (faulty variant: a task scheduled for retry is never picked up again)
JobLive_NoRetry == {"queued"}
JobLive == {"queued", "retry"}
JobFinal == {"success", "failed"}

\* Lines 21-52: one run of the task for job i by a queue worker.  api_fails
\* is the outcome of the call to the insurance API (line 28).
notify_insurance_company_task(i, api_fails) ==
    /\ i \in DOMAIN jobs
    /\ jobs[i].state \in JobLive
    /\ LET retry_count == jobs[i].retries
           terminal == api_fails /\ retries_exhausted(retry_count)
       IN
       /\ jobs' = [jobs EXCEPT ![i] =
                     IF ~api_fails THEN [@ EXCEPT !.state = "success"]
                     ELSE IF retries_exhausted(retry_count) THEN [@ EXCEPT !.state = "failed"]
                     ELSE [@ EXCEPT !.state = "retry",
                                    !.retries = retry_count + 1,
                                    !.countdowns = Append(@, countdown(retry_count))]]
       /\ requests' = requests_after_task(jobs[i].request_id, terminal)
    /\ UNCHANGED <<providers, assignments, reqLock, provLock, tx>>

\* One request has been created; the callers dispatch, complete and cancel
\* it while the queue workers run the notification jobs.
NotifyInit ==
    /\ \E lat \in Lats : requests = <<[status |-> STATUS_PENDING, lat |-> lat]>>
    /\ \E n \in 0..NumProviders : providers \in [1..n -> [lat : Lats, is_available : {TRUE}]]
    /\ assignments = <<>>
    /\ jobs = <<>>
    /\ reqLock = <<0>>
    /\ provLock = [p \in Providers |-> 0]
    /\ tx = [t \in Workers |-> Idle]

RunTask == \E i \in DOMAIN jobs, api_fails \in BOOLEAN : notify_insurance_company_task(i, api_fails)

NotifyNext ==
    \/ \E t \in Workers, op \in Ops, rid \in DOMAIN requests : Begin(t, op, rid)
    \/ \E t \in Workers : DispatchLockRequest(t)
    \/ \E t \in Workers : DispatchLockProviders(t)
    \/ \E t \in Workers : CompleteLockRequest(t)
    \/ \E t \in Workers : CancelLockRequest(t)
    \/ \E t \in Workers : Commit(t)
    \/ \E t \in Workers : OnCommit(t)
    \/ \E t \in Workers : Return(t)
    \/ RunTask

SpecNotify == NotifyInit /\ [][NotifyNext]_vars

\* The queue workers keep running the jobs that are due.
FairSpecNotify == SpecNotify /\ WF_vars(RunTask)

\* ------------------------------------------ dispatch against cancel
\* Request 1 is PENDING; caller 1 has issued dispatch and caller 2 cancel on
\* it.  Some of the providers are busy with earlier requests (ids from 2)
\* that stay DISPATCHED; nothing else runs.
DCInit ==
    \E n \in 0..NumProviders :
    \E busy \in SUBSET (1..n) :
    \E held \in Orderings(busy) :
    \E lats \in [1..(1 + Cardinality(busy)) -> Lats] :
        /\ requests = [r \in 1..(1 + Cardinality(busy)) |->
                         [status |-> IF r = 1 THEN STATUS_PENDING ELSE STATUS_DISPATCHED,
                          lat |-> lats[r]]]
        /\ providers \in [1..n -> [lat : Lats, is_available : BOOLEAN]]
        /\ \A p \in 1..n : providers[p].is_available = (p \notin busy)
        /\ assignments = [i \in 1..Cardinality(busy) |-> [request |-> 1 + i, provider |-> held[i]]]
        /\ jobs = [i \in 1..Cardinality(busy) |-> NewJob(1 + i)]
        /\ reqLock = [r \in 1..(1 + Cardinality(busy)) |-> 0]
        /\ provLock = [p \in Providers |-> 0]
        /\ tx = [t \in Workers |->
                   IF t = 1 THEN [Idle EXCEPT !.pc = "lock_req", !.op = "dispatch", !.request_id = 1]
                   ELSE IF t = 2 THEN [Idle EXCEPT !.pc = "lock_req", !.op = "cancel", !.request_id = 1]
                   ELSE Idle]

DCNext ==
    \/ \E t \in Workers : DispatchLockRequest(t)
    \/ \E t \in Workers : DispatchLockProviders(t)
    \/ \E t \in Workers : CancelLockRequest(t)
    \/ \E t \in Workers : Commit(t)
    \/ \E t \in Workers : OnCommit(t)

SpecDC == DCInit /\ [][DCNext]_vars

\* ------------------------------------------------------------ properties
Status(r) == requests[r].status

\* The error classes of the design, over the exceptions the code raises.
InvalidState == {ErrNotPending, ErrNotDispatched, ErrCompleted}
NoProvidersAvailable == {ErrNoProviders}

Terminal == {STATUS_COMPLETED, STATUS_CANCELLED}

\* The DISPATCHED requests an assignment links to provider p.
ActiveRequestsOf(p) ==
    {r \in DOMAIN requests :
        /\ Status(r) = STATUS_DISPATCHED
        /\ \E i \in AssignmentsOf(r) : assignments[i].provider = p}

Dist(r, p) == haversine_distance(requests[r].lat, 0, providers[p].lat, 0)

\* Caller t's call has returned normally / has gone through its commit.
Succeeded(t) == tx[t].pc = "done" /\ tx[t].result = OK
Committed(t) == tx[t].pc = "on_commit" \/ Succeeded(t)

\* C1: in every reachable state no provider is linked by assignments to two
\* requests that are both DISPATCHED.
C1_NoProviderDoubleBooked ==
    \A p \in DOMAIN providers : Cardinality(ActiveRequestsOf(p)) <= 1

\* C1's case: a dispatch holds the available providers with its choice made
\* while another dispatch, of another request, waits for those rows.
C1_Witness ==
    \E t1, t2 \in Workers :
        /\ t1 # t2
        /\ tx[t1].op = "dispatch" /\ tx[t1].pc = "commit"
        /\ tx[t2].op = "dispatch" /\ tx[t2].pc = "lock_prov"
        /\ tx[t1].request_id # tx[t2].request_id
        /\ provLock[tx[t1].provider] = t1
        /\ ~ProviderRowsFree(t2, AvailableProviders)

AllDone == \A t \in Workers : tx[t].pc = "done"

\* C2: of the NumWorkers dispatches racing for the single available provider
\* exactly one succeeds, every other fails with NoProvidersAvailable and its
\* request stays PENDING; until all have returned some dispatch can step.
C2_OneWinner ==
    /\ AllDone =>
         /\ Cardinality({t \in Workers : tx[t].result = OK}) = 1
         /\ \A t \in Workers :
              tx[t].result # OK =>
                 /\ tx[t].result \in NoProvidersAvailable
                 /\ Status(tx[t].request_id) = STATUS_PENDING
                 /\ AssignmentsOf(tx[t].request_id) = {}
         /\ \A t \in Workers :
              tx[t].result = OK => Status(tx[t].request_id) = STATUS_DISPATCHED
    /\ ~AllDone => ENABLED RaceNext

\* C2's case: the race is over, with a winner and a loser.
C2_Witness ==
    /\ AllDone
    /\ \E t1, t2 \in Workers :
          tx[t1].result = OK /\ tx[t2].result = ErrNoProviders

\* C3: a request never has more than one assignment; two dispatches of one
\* request are never both past its row lock and never both succeed; a
\* dispatch that finds its request no longer PENDING fails with InvalidState
\* and holds no provider.
C3_OneAssignmentPerRequest ==
    /\ \A r \in DOMAIN requests : Cardinality(AssignmentsOf(r)) <= 1
    /\ \A t1, t2 \in Workers :
          (/\ t1 # t2
           /\ tx[t1].op = "dispatch" /\ tx[t2].op = "dispatch"
           /\ tx[t1].request_id = tx[t2].request_id)
          => /\ ~(tx[t1].pc \in {"lock_prov", "commit"} /\ tx[t2].pc \in {"lock_prov", "commit"})
             /\ ~(Committed(t1) /\ Committed(t2))
             /\ ~(Committed(t1) /\ tx[t2].pc \in {"lock_prov", "commit"})
    /\ \A t \in Workers :
          (/\ tx[t].op = "dispatch"
           /\ tx[t].pc # "lock_req"
           /\ tx[t].req_status \notin {"", STATUS_PENDING})
          => /\ tx[t].pc = "done"
             /\ tx[t].result \in InvalidState
             /\ tx[t].provider = 0
             /\ \A p \in DOMAIN providers : provLock[p] # t

\* C3's case: one dispatch of a request has committed and has not returned
\* yet while the other dispatch of the same request has failed.
C3_Witness ==
    \E t1, t2 \in Workers :
        /\ t1 # t2
        /\ tx[t1].op = "dispatch" /\ tx[t2].op = "dispatch"
        /\ tx[t1].request_id = tx[t2].request_id
        /\ tx[t1].pc = "on_commit"
        /\ tx[t2].pc = "done" /\ tx[t2].result = ErrNotPending
        /\ tx[t2].req_status = STATUS_DISPATCHED

AllowedTransitions ==
    { <<STATUS_PENDING, STATUS_DISPATCHED>>, <<STATUS_DISPATCHED, STATUS_COMPLETED>>,
      <<STATUS_DISPATCHED, STATUS_CANCELLED>>, <<STATUS_PENDING, STATUS_CANCELLED>> }

\* C4: every status change of a request is PENDING->DISPATCHED,
\* DISPATCHED->COMPLETED, DISPATCHED->CANCELLED or PENDING->CANCELLED; a
\* COMPLETED or CANCELLED request never changes status again.
C4_TransitionsAllowed ==
    [][\A r \in DOMAIN requests :
          requests'[r].status # requests[r].status
             => <<requests[r].status, requests'[r].status>> \in AllowedTransitions]_vars

\* C4's case: one request has been completed, another cancelled, and calls
\* on both are being attempted.
C4_Witness ==
    \E r1, r2 \in DOMAIN requests :
        /\ Status(r1) = STATUS_COMPLETED
        /\ Status(r2) = STATUS_CANCELLED
        /\ \E t \in Workers :
              tx[t].pc = "lock_req" /\ tx[t].op = "cancel" /\ tx[t].request_id = r1

\* The transitions the state machine does not have, per operation.
InvalidAttempt(op, status) ==
    \/ op = "dispatch" /\ status # STATUS_PENDING
    \/ op = "complete" /\ status # STATUS_DISPATCHED
    \/ op = "cancel" /\ status = STATUS_COMPLETED

\* C5: a call attempting an invalid transition ends at once with InvalidState
\* and changes no request, provider, assignment or notification job.
C5_InvalidTransitionRejected ==
    [][\A t \in Workers :
          (/\ tx[t].pc = "lock_req"
           /\ tx'[t].pc # "lock_req"
           /\ Exists(tx[t].request_id)
           /\ InvalidAttempt(tx[t].op, Status(tx[t].request_id)))
          => /\ tx'[t].pc = "done"
             /\ tx'[t].result \in InvalidState
             /\ UNCHANGED <<db, reqLock, provLock>>]_vars

\* C5's case: each of the three calls has been rejected somewhere: here a
\* complete and a dispatch, both on terminal requests.
C5_Witness ==
    \E t1, t2 \in Workers :
        /\ tx[t1].pc = "done" /\ tx[t1].result = ErrNotDispatched
        /\ tx[t1].req_status \in Terminal
        /\ tx[t2].pc = "done" /\ tx[t2].result = ErrNotPending
        /\ tx[t2].req_status \in Terminal

\* C6: when a complete or a cancel of a DISPATCHED request commits, the
\* provider linked to the request was unavailable and is available and
\* unlocked afterwards, so a dispatch can select it.
C6_ProviderReleased ==
    [][\A t \in Workers :
          (/\ tx[t].pc = "commit"
           /\ tx'[t].pc = "done"
           /\ tx[t].op \in {"complete", "cancel"}
           /\ Status(tx[t].request_id) = STATUS_DISPATCHED)
          => /\ LinkedProvider(tx[t].request_id) # 0
             /\ ~providers[LinkedProvider(tx[t].request_id)].is_available
             /\ LinkedProvider(tx[t].request_id) \in AvailableProviders'
             /\ provLock'[LinkedProvider(tx[t].request_id)] = 0]_vars

\* C6's case: a provider released by one request has been dispatched to
\* another request.
C6_Witness ==
    \E i, j \in DOMAIN assignments :
        /\ i < j
        /\ assignments[i].provider = assignments[j].provider
        /\ Status(assignments[i].request) \in Terminal
        /\ Status(assignments[j].request) = STATUS_DISPATCHED

\* C7: a cancel of a CANCELLED request is not rejected, returns success and
\* changes no request, provider, assignment or notification job.
C7_CancelIdempotent ==
    [][\A t \in Workers :
          /\ (/\ tx[t].op = "cancel"
              /\ tx[t].pc = "lock_req"
              /\ tx'[t].pc # "lock_req"
              /\ Exists(tx[t].request_id)
              /\ Status(tx[t].request_id) = STATUS_CANCELLED)
             => tx'[t].pc = "commit" /\ UNCHANGED db
          /\ (/\ tx[t].op = "cancel"
              /\ tx[t].pc = "commit"
              /\ tx'[t].pc # "commit"
              /\ tx[t].req_status = STATUS_CANCELLED)
             => /\ tx'[t].pc = "done"
                /\ tx'[t].result = OK
                /\ UNCHANGED db]_vars

\* C7's case: the repeated cancel has returned while the provider formerly
\* linked to the cancelled request serves another request.
C7_Witness ==
    \E t \in Workers :
        /\ tx[t].op = "cancel" /\ Succeeded(t)
        /\ tx[t].req_status = STATUS_CANCELLED
        /\ LinkedProvider(tx[t].request_id) # 0
        /\ ~providers[LinkedProvider(tx[t].request_id)].is_available
        /\ ActiveRequestsOf(LinkedProvider(tx[t].request_id)) # {}

JobsOf(r) == {i \in DOMAIN jobs : jobs[i].request_id = r}

\* C8: the queue changes only when the hook of a committed dispatch adds
\* that request's one job; a dispatch returns success only with its job
\* added and returns an error without adding one; so every job is for a
\* request with a committed assignment, no longer PENDING, and no request
\* has two jobs.
C8_NotifyAfterCommit ==
    [][/\ jobs' # jobs =>
            \E t \in Workers :
                /\ tx[t].op = "dispatch"
                /\ tx[t].pc = "on_commit"
                /\ Succeeded(t)'
                /\ jobs' = Append(jobs, NewJob(tx[t].request_id))
                /\ Status(tx[t].request_id) # STATUS_PENDING
                /\ AssignmentsOf(tx[t].request_id) # {}
       /\ \A t \in Workers :
             (tx[t].op = "dispatch" /\ tx[t].pc # "done" /\ tx'[t].pc = "done")
             => IF tx'[t].result = OK
                THEN JobsOf(tx[t].request_id)' # {}
                ELSE jobs' = jobs
       /\ \A r \in DOMAIN requests' :
             /\ Cardinality(JobsOf(r)') <= 1
             /\ JobsOf(r)' # {} => requests'[r].status # STATUS_PENDING /\ AssignmentsOf(r)' # {}
      ]_vars

\* C8's case: a dispatch has returned with its job queued, and a failed
\* dispatch of a request that is still PENDING has queued none.
C8_Witness ==
    \E t1, t2 \in Workers :
        /\ tx[t1].op = "dispatch" /\ Succeeded(t1)
        /\ JobsOf(tx[t1].request_id) # {}
        /\ tx[t2].op = "dispatch" /\ tx[t2].pc = "done" /\ tx[t2].result = ErrNoProviders
        /\ JobsOf(tx[t2].request_id) = {}

\* Caller t's dispatch takes its provider locks and makes its choice.
Selects(t) == tx[t].pc = "lock_prov" /\ tx'[t].pc = "commit"

\* C9: the provider a dispatch selects is available when the provider locks
\* are taken and no provider available then is strictly nearer to the
\* request.
C9_NearestSelected ==
    [][\A t \in Workers :
          Selects(t) =>
             /\ providers[tx'[t].provider].is_available
             /\ \A q \in DOMAIN providers :
                   providers[q].is_available
                      => Dist(tx[t].request_id, tx'[t].provider) <= Dist(tx[t].request_id, q)]_vars

\* C9's case: the dispatch had a strictly farther available provider to
\* choose from, with a lower identity than the selected one.
C9_Witness ==
    \E t \in Workers :
        /\ tx[t].op = "dispatch" /\ tx[t].pc = "commit"
        /\ \E q \in DOMAIN providers :
              /\ q < tx[t].provider
              /\ providers[q].is_available
              /\ provLock[q] = t
              /\ Dist(tx[t].request_id, q) > Dist(tx[t].request_id, tx[t].provider)

\* C10: among the available providers tied at the minimal distance a
\* dispatch selects the one with the lowest identity.
C10_LowestIdentityOnTie ==
    [][\A t \in Workers :
          Selects(t) =>
             \A q \in DOMAIN providers :
                (/\ providers[q].is_available
                 /\ Dist(tx[t].request_id, q) = Dist(tx[t].request_id, tx'[t].provider))
                => tx'[t].provider <= q]_vars

\* C11: a failed run with retries = k < 5 schedules the retry k + 1 after
\* min(2^k, 16) minutes, so 1, 2, 4, 8, 16 minutes in turn; a failed run at
\* retries = 5 ends the job in terminal failure with no retry scheduled; a
\* job is never retried more than 5 times.
C11_BackoffSchedule ==
    [][\A i \in DOMAIN jobs :
          /\ jobs'[i].retries <= 5
          /\ jobs'[i].state = "failed" =>
                /\ jobs'[i].retries = 5
                /\ jobs'[i].countdowns = <<60, 120, 240, 480, 960>>
          /\ (jobs'[i] # jobs[i] /\ jobs'[i].state # "success") =>
                IF jobs[i].retries < 5
                THEN /\ jobs'[i].state = "retry"
                     /\ jobs'[i].retries = jobs[i].retries + 1
                     /\ jobs'[i].countdowns =
                           Append(jobs[i].countdowns,
                                  60 * (CASE jobs[i].retries = 0 -> 1 [] jobs[i].retries = 1 -> 2
                                          [] jobs[i].retries = 2 -> 4 [] jobs[i].retries = 3 -> 8
                                          [] OTHER -> 16))
                ELSE /\ jobs'[i].state = "failed"
                     /\ jobs'[i].retries = jobs[i].retries
                     /\ jobs'[i].countdowns = jobs[i].countdowns
          /\ jobs[i].state \in JobFinal => jobs'[i] = jobs[i]]_vars

\* C11's case: a job has failed six times in a row and has given up.
C11_Witness ==
    \E i \in DOMAIN jobs : jobs[i].state = "failed" /\ Len(jobs[i].countdowns) = 5

\* C12: under fair scheduling of the queue workers every enqueued job ends
\* in success or in terminal failure, whatever the callers do with the
\* request meanwhile.
C12_JobTerminates ==
    \A i \in RequestIds :
        (i \in DOMAIN jobs) ~> (i \in DOMAIN jobs /\ jobs[i].state \in JobFinal)

\* C12's case: a job has ended after at least one retry, for a request that
\* was completed or cancelled in the meantime.
C12_Witness ==
    \E i \in DOMAIN jobs :
        /\ jobs[i].state \in JobFinal
        /\ jobs[i].retries > 0
        /\ Status(jobs[i].request_id) \in Terminal

\* C13: a dispatch that takes its provider locks when no provider is
\* available ends at once with NoProvidersAvailable; the request stays
\* PENDING and unlocked, with no assignment and no notification job, and
\* nothing in the database changes.
C13_NoProvidersLeavesPending ==
    [][\A t \in Workers :
          (/\ tx[t].op = "dispatch"
           /\ tx[t].pc = "lock_prov"
           /\ tx'[t].pc # "lock_prov"
           /\ \A p \in DOMAIN providers : ~providers[p].is_available)
          => /\ tx'[t].pc = "done"
             /\ tx'[t].result \in NoProvidersAvailable
             /\ ~tx'[t].on_commit
             /\ UNCHANGED db
             /\ Status(tx[t].request_id) = STATUS_PENDING
             /\ AssignmentsOf(tx[t].request_id) = {}
             /\ JobsOf(tx[t].request_id) = {}
             /\ reqLock'[tx[t].request_id] = 0
             /\ \A p \in Providers : provLock'[p] # t]_vars

\* C13's case: a dispatch of a request has failed for want of a provider
\* and, a provider having been released since, another dispatch of the same
\* request has committed.
C13_Witness ==
    \E t1, t2 \in Workers :
        /\ tx[t1].op = "dispatch" /\ tx[t1].pc = "done" /\ tx[t1].result = ErrNoProviders
        /\ tx[t2].op = "dispatch" /\ Committed(t2)
        /\ tx[t2].request_id = tx[t1].request_id
        /\ \E i \in DOMAIN assignments :
              /\ assignments[i].request # tx[t1].request_id
              /\ assignments[i].provider = tx[t2].provider
              /\ Status(assignments[i].request) \in Terminal

\* A step of the notification scheduler: a job moves on.
JobStep == \E i \in DOMAIN jobs : jobs'[i] # jobs[i]

\* C14: no run of a notification job, whether it succeeds, schedules a
\* retry or fails for good, changes a request, a provider, an assignment, a
\* lock or a call in progress; the request of a terminally failed job keeps
\* its assignment and is not PENDING again.
C14_NotificationInvisible ==
    [][/\ JobStep => UNCHANGED <<requests, providers, assignments, reqLock, provLock, tx>>
       /\ \A i \in DOMAIN jobs' :
             jobs'[i].state = "failed" =>
                /\ \E k \in DOMAIN assignments' : assignments'[k].request = jobs'[i].request_id
                /\ requests'[jobs'[i].request_id].status # STATUS_PENDING]_vars

\* C14's case: the notification has failed for good and the request is
\* still dispatched to its provider.
C14_Witness ==
    \E i \in DOMAIN jobs :
        /\ jobs[i].state = "failed"
        /\ Status(jobs[i].request_id) = STATUS_DISPATCHED
        /\ LinkedProvider(jobs[i].request_id) # 0
        /\ ~providers[LinkedProvider(jobs[i].request_id)].is_available

\* The calls inside their atomic block, and a step of such a call.
Unfinished == {t \in Workers : tx[t].pc \in {"lock_req", "lock_prov", "commit"}}

TxStep(t) ==
    \/ DispatchLockRequest(t)
    \/ DispatchLockProviders(t)
    \/ CompleteLockRequest(t)
    \/ CancelLockRequest(t)
    \/ Commit(t)

C16_ProviderBusyUnreachable ==
    \A t \in Workers : tx[t].result # ErrProviderBusy

\* C16's case: a dispatch has passed the re-check right after a competing
\* dispatch committed another provider.
C16_Witness ==
    \E t1, t2 \in Workers :
        /\ tx[t1].op = "dispatch" /\ tx[t1].pc = "on_commit"
        /\ tx[t2].op = "dispatch" /\ tx[t2].pc = "commit"
        /\ tx[t1].provider # tx[t2].provider
        /\ ~providers[tx[t1].provider].is_available
        /\ providers[tx[t2].provider].is_available

\* C17: in every committed state a DISPATCHED request has an assignment row
\* and a PENDING request has none; no call ever ends with NoAssignment.
C17_DispatchedHasAssignment ==
    /\ \A r \in DOMAIN requests :
          /\ Status(r) = STATUS_DISPATCHED => \E i \in DOMAIN assignments : assignments[i].request = r
          /\ Status(r) = STATUS_PENDING => ~\E i \in DOMAIN assignments : assignments[i].request = r
    /\ \A t \in Workers : tx[t].result # ErrNoAssignment

\* C17's case: a complete of a DISPATCHED request has found the assignment
\* and returned.
C17_Witness ==
    \E t \in Workers :
        /\ tx[t].op = "complete" /\ Succeeded(t)
        /\ tx[t].req_status = STATUS_DISPATCHED
        /\ tx[t].provider # 0
        /\ \E i \in DOMAIN assignments :
              assignments[i].request = tx[t].request_id /\ assignments[i].provider = tx[t].provider

\* C18: in every state of the database as the other transactions see it, a
\* provider is unavailable exactly when one DISPATCHED request is assigned
\* to it, and never more than one is; this covers the states in which a
\* dispatch, complete or cancel has buffered its writes and not committed.
C18_UnavailableIffActive ==
    \A p \in DOMAIN providers :
        /\ ~providers[p].is_available <=> Cardinality(ActiveRequestsOf(p)) = 1
        /\ Cardinality(ActiveRequestsOf(p)) <= 1

\* C18's case: a dispatch has reserved its provider and not committed (the
\* provider still shows available, the request PENDING) while another
\* provider is busy with a DISPATCHED request.
C18_Witness ==
    \E t \in Workers :
        /\ tx[t].op = "dispatch" /\ tx[t].pc = "commit"
        /\ tx[t].w_available = "false"
        /\ providers[tx[t].provider].is_available
        /\ Status(tx[t].request_id) = STATUS_PENDING
        /\ \E q \in DOMAIN providers :
              ~providers[q].is_available /\ ActiveRequestsOf(q) # {}

\* Both racing calls have returned.
DCDone == tx[1].pc = "done" /\ tx[2].pc = "done"

\* The providers that were available before the two calls: those no
\* earlier request holds.
FreeBefore(p) == ~\E i \in DOMAIN assignments :
                     assignments[i].provider = p /\ assignments[i].request # 1

\* The end both orders share: the request CANCELLED, the cancel successful,
\* the providers available as before.
DCEnd ==
    /\ Status(1) = STATUS_CANCELLED
    /\ tx[2].result = OK
    /\ \A p \in DOMAIN providers : providers[p].is_available = FreeBefore(p)

\* The cancel went first: the dispatch failed with InvalidState and reserved
\* nothing.
DCCancelFirst ==
    /\ tx[1].result \in InvalidState
    /\ tx[2].req_status = STATUS_PENDING
    /\ AssignmentsOf(1) = {}

\* The dispatch went first and reserved a provider, which the cancel released.
DCDispatchFirst ==
    /\ tx[1].result = OK
    /\ tx[2].req_status = STATUS_DISPATCHED
    /\ AssignmentsOf(1) # {}
    /\ tx[2].provider = LinkedProvider(1)

\* The dispatch went first and found no provider available.
DCNoProvider ==
    /\ tx[1].result \in NoProvidersAvailable
    /\ tx[2].req_status = STATUS_PENDING
    /\ AssignmentsOf(1) = {}
    /\ \A p \in DOMAIN providers : ~FreeBefore(p)

\* C19 as stated: every interleaving of dispatch(r) and cancel(r) on a
\* PENDING r ends with r CANCELLED and the providers available as before,
\* either cancel first and dispatch failing with InvalidState, or dispatch
\* first and cancel releasing the reserved provider.
C19_TwoOutcomes ==
    DCDone => DCEnd /\ (DCCancelFirst \/ DCDispatchFirst)

\* C19 amended: as above, with the third outcome that the dispatch goes
\* first and fails with NoProvidersAvailable because no provider was
\* available; and until both calls have returned one of them can step.
C19_ThreeOutcomes ==
    /\ DCDone => DCEnd /\ (DCCancelFirst \/ DCDispatchFirst \/ DCNoProvider)
    /\ ~DCDone => ENABLED DCNext

\* C19's case: the dispatch went first, the cancel released its provider.
C19_Witness ==
    DCDone /\ DCEnd /\ DCDispatchFirst /\ JobsOf(1) # {}

====
